---- MODULE Spec2Model ----
(***************************************************************************)
(* DICOM importer (src/importer/importer.py): the service-account token    *)
(* cache (TokenManager), the readiness tracker and ingestion loop          *)
(* (InboxHandler, main) and the study processor (DicomProcessor).          *)
(* Each subsystem has its own specification over the shared variables.     *)
(***************************************************************************)
EXTENDS Integers, Sequences, FiniteSets, TLC

VARIABLES
    clock,          \* time.time(), in seconds
    \* ---- TokenManager ----
    client_secret,  \* Config.keycloak_client_secret is non-empty
    tm_token,       \* TokenManager._token (NoToken is None)
    tm_expires,     \* TokenManager._token_expires
    tm_lock,        \* holder of TokenManager._lock
    tpc,            \* position of each get_token() caller
    tret,           \* value returned by each caller's last get_token()
    tcall,          \* bookkeeping of each caller's current call
    nreq,           \* number of POSTs sent to the token endpoint
    lastGrant,      \* when the last successful refresh stored its token, and its expiry
    ncalls,         \* number of get_token() calls started
    \* ---- InboxHandler / main ----
    cooldown_seconds, \* Config.cooldown_seconds
    inbox,          \* the study folders that exist under the inbox root
    pending_folders,\* InboxHandler.pending_folders: study key -> time of last event
    mpc,            \* position of the main thread
    dnow,           \* check_pending_folders: now
    dlist,          \* check_pending_folders: folders_to_process not yet handled
    wakeAt,         \* when shutdown_event.wait(timeout=5) times out
    shutdown_event, \* main: shutdown_event is set
    observer_on,    \* the watchdog observer delivers events
    queue,          \* jobs submitted to the executor and not yet started
    running,        \* the job each executor thread runs
    lastEvent,      \* history: time of the most recent event noted per study key
    noted,          \* history: the scenario times at which an event was noted
    lastNote,       \* history: the path last handed to _handle_new_folder, and its fate
    refreshed,      \* history: keys due at the running drain's `now`, noted again before it collected
    job_raised,     \* history: a job ended with an exception leaving process_study_folder
    missed,         \* history: keys of study folders an event at or below which left unstamped
    submitted,      \* history: the jobs the running drain has submitted, as (folder, clinic_id)
    \* ---- DicomProcessor ----
    layout,         \* the files in each study folder
    tree,           \* per root (processed / failed): the entries of the date directory
    records,        \* the *.error.json files of the failed date directory
    active,         \* ACTIVE_IMPORTS
    ppc,            \* position of each process_study_folder call
    pst             \* the locals of each process_study_folder call

tokenVars == <<client_secret, tm_token, tm_expires, tm_lock, tpc, tret, tcall,
               nreq, lastGrant, ncalls>>

historyVars == <<lastNote, refreshed, job_raised, missed, submitted>>

ingestVars == <<cooldown_seconds, inbox, pending_folders, mpc, dnow, dlist, wakeAt,
                shutdown_event, observer_on, queue, running, lastEvent, noted,
                historyVars>>

procVars == <<layout, tree, records, active, ppc, pst>>

vars == <<clock, tokenVars, ingestVars, procVars>>

(***************************************************************************)
(* TokenManager                                                            *)
(***************************************************************************)

Threads == {"t1", "t2", "t3"}
NoThread == "none"
NoToken == 0

\* get_token's safety margin before expiry
Margin == 60
\* data.get('expires_in', 300)
DefaultExpiresIn == 300
\* the clock of the token specification stops here
MaxTokenClock == 150
\* get_token() calls started in one behaviour
MaxCalls == 4

\* expires_in values the issuer sends
ExpiresInValues == {30, 60, 90, 300}

\* What requests.post / raise_for_status / response.json() can give.
TokenResponses ==
    {[kind |-> k, access_token |-> FALSE, expires_in |-> [has |-> "missing", val |-> 0]] :
        k \in {"network_error", "http_error", "bad_json"}}
    \cup
    {[kind |-> "json", access_token |-> a, expires_in |-> e] :
        a \in BOOLEAN,
        e \in {[has |-> "number", val |-> v] : v \in ExpiresInValues}
              \cup {[has |-> "missing", val |-> 0], [has |-> "not_a_number", val |-> 0]}}

\* get_token: `self._token and time.time() < self._token_expires - 60`
CacheValid(tok, exp, now) == tok # NoToken /\ now < exp - Margin

\* a test of the secret that never skips the refresh
SecretMissingBroken(secret) == FALSE

\* _refresh_token: `if not self.config.keycloak_client_secret`
SecretMissing(secret) == ~secret

\* `with self._lock:` can be entered
LockFreeBroken(holder) == TRUE
LockFree(holder) == holder = NoThread

\* _refresh_token after the POST: the new (_token, _token_expires) and the
\* value returned.  newtok is the access_token of this response.
\* The two assignments run in order; an exception between them keeps the first.
RefreshOutcome(resp, tok, exp, now, newtok) ==
    IF resp.kind # "json" \/ ~resp.access_token
    THEN [token |-> tok, expires |-> exp, ret |-> NoToken, ok |-> FALSE]
    ELSE IF resp.expires_in.has = "not_a_number"
    THEN [token |-> newtok, expires |-> exp, ret |-> NoToken, ok |-> FALSE]
    ELSE LET e == IF resp.expires_in.has = "missing" THEN DefaultExpiresIn
                  ELSE resp.expires_in.val
         IN  [token |-> newtok, expires |-> now + e, ret |-> newtok, ok |-> TRUE]

NoCall == [waited |-> NoThread, awaited |-> 0, sent |-> 0, refreshed |-> FALSE, failed |-> FALSE,
           checkAt |-> 0, preToken |-> NoToken, preExpires |-> 0, remaining |-> 0,
           hit |-> FALSE]

InitToken ==
    /\ client_secret \in BOOLEAN
    /\ tm_token = NoToken
    /\ tm_expires = 0
    /\ tm_lock = NoThread
    /\ tpc = [t \in Threads |-> "idle"]
    /\ tret = [t \in Threads |-> NoToken]
    /\ tcall = [t \in Threads |-> NoCall]
    /\ nreq = 0
    /\ lastGrant = [at |-> 0, expires |-> 0]
    /\ ncalls = 0

\* the caller whose POST is in flight, if any
InFlight ==
    IF \E u \in Threads : tpc[u] = "posting"
    THEN CHOOSE u \in Threads : tpc[u] = "posting"
    ELSE NoThread

\* A finished call hands its value to the caller before anything else runs:
\* "done" is the instant of the return.
NoReturnPending == \A u \in Threads : tpc[u] # "done"

\* a worker calls get_token()
TCall(t) ==
    /\ tpc[t] = "idle"
    /\ NoReturnPending
    /\ ncalls < MaxCalls
    /\ ncalls' = ncalls + 1
    /\ tpc' = [tpc EXCEPT ![t] = "lock"]
    /\ tcall' = [tcall EXCEPT ![t] = [NoCall EXCEPT !.waited = InFlight]]
    /\ UNCHANGED <<clock, client_secret, tm_token, tm_expires, tm_lock, tret, nreq,
                   lastGrant>>
    /\ UNCHANGED <<ingestVars, procVars>>

\* `with self._lock:`
TAcquire(t) ==
    /\ tpc[t] = "lock"
    /\ NoReturnPending
    /\ LockFree(tm_lock)
    /\ tm_lock' = t
    /\ tpc' = [tpc EXCEPT ![t] = "check"]
    /\ UNCHANGED <<clock, client_secret, tm_token, tm_expires, tret, tcall, nreq,
                   lastGrant, ncalls>>
    /\ UNCHANGED <<ingestVars, procVars>>

\* get_token's test of the cache under the lock, and _refresh_token up to
\* requests.post
TCheck(t) ==
    /\ tpc[t] = "check"
    /\ NoReturnPending
    /\ IF CacheValid(tm_token, tm_expires, clock)
       THEN /\ tret' = [tret EXCEPT ![t] = tm_token]
            /\ tpc' = [tpc EXCEPT ![t] = "done"]
            /\ tm_lock' = NoThread
            /\ tcall' = [tcall EXCEPT ![t].checkAt = clock, ![t].hit = TRUE,
                                      ![t].preToken = tm_token,
                                      ![t].preExpires = tm_expires,
                                      ![t].remaining = tm_expires - clock]
            /\ UNCHANGED nreq
       ELSE IF SecretMissing(client_secret)
       THEN /\ tret' = [tret EXCEPT ![t] = NoToken]
            /\ tpc' = [tpc EXCEPT ![t] = "done"]
            /\ tm_lock' = NoThread
            /\ tcall' = [tcall EXCEPT ![t].checkAt = clock, ![t].refreshed = TRUE,
                                      ![t].preToken = tm_token,
                                      ![t].preExpires = tm_expires]
            /\ UNCHANGED nreq
       ELSE /\ nreq' = nreq + 1
            /\ tpc' = [tpc EXCEPT ![t] = "posting"]
            /\ tcall' = [u \in Threads |->
                           IF u = t
                           THEN [tcall[u] EXCEPT !.checkAt = clock, !.refreshed = TRUE,
                                                 !.preToken = tm_token,
                                                 !.preExpires = tm_expires,
                                                 !.sent = nreq + 1]
                           ELSE IF tpc[u] = "lock"
                                THEN [tcall[u] EXCEPT !.waited = t, !.awaited = 0]
                                ELSE tcall[u]]
            /\ UNCHANGED <<tret, tm_lock>>
    /\ UNCHANGED <<clock, client_secret, tm_token, tm_expires, lastGrant, ncalls>>
    /\ UNCHANGED <<ingestVars, procVars>>

\* the response (or the exception) of requests.post, and the rest of _refresh_token
TResponse(t, resp) ==
    /\ tpc[t] = "posting"
    /\ NoReturnPending
    /\ LET id == tcall[t].sent
           r  == RefreshOutcome(resp, tm_token, tm_expires, clock, id)
       IN  /\ tm_token' = r.token
           /\ tm_expires' = r.expires
           /\ tret' = [tret EXCEPT ![t] = r.ret]
           /\ tcall' = [u \in Threads |->
                          IF u = t
                          THEN [tcall[u] EXCEPT !.failed = ~r.ok,
                                                !.remaining = r.expires - clock]
                          ELSE IF tcall[u].waited = t /\ tcall[u].awaited = 0
                               THEN [tcall[u] EXCEPT !.awaited =
                                        IF r.ok THEN r.expires ELSE -1]
                               ELSE tcall[u]]
           /\ lastGrant' = IF r.ok THEN [at |-> clock, expires |-> r.expires]
                           ELSE lastGrant
    /\ tpc' = [tpc EXCEPT ![t] = "done"]
    /\ tm_lock' = NoThread
    /\ UNCHANGED <<clock, client_secret, nreq, ncalls>>
    /\ UNCHANGED <<ingestVars, procVars>>

\* the caller uses the value and is ready to call again
TReturn(t) ==
    /\ tpc[t] = "done"
    /\ tpc' = [tpc EXCEPT ![t] = "idle"]
    /\ tcall' = [tcall EXCEPT ![t] = NoCall]
    /\ tret' = [tret EXCEPT ![t] = NoToken]
    /\ UNCHANGED <<clock, client_secret, tm_token, tm_expires, tm_lock,
                   nreq, lastGrant, ncalls>>
    /\ UNCHANGED <<ingestVars, procVars>>

\* time passes
TTick ==
    /\ clock + 30 <= MaxTokenClock
    /\ NoReturnPending
    /\ clock' = clock + 30
    /\ UNCHANGED <<tokenVars, ingestVars, procVars>>

NextToken ==
    \/ \E t \in Threads : TCall(t)
    \/ \E t \in Threads : TAcquire(t)
    \/ \E t \in Threads : TCheck(t)
    \/ \E t \in Threads, resp \in TokenResponses : TResponse(t, resp)
    \/ \E t \in Threads : TReturn(t)
    \/ TTick

(***************************************************************************)
(* InboxHandler and main: readiness tracking, drain, worker pool           *)
(***************************************************************************)

\* seconds of shutdown_event.wait(timeout=5)
TickPeriod == 5
\* Config.cooldown_seconds of the ingestion specification
IngestCooldown == 2
\* Config.cooldown_seconds of the debounce scenario (the default)
DebounceCooldown == 60
\* the clock of the debounce scenario stops here
MaxDebounceClock == 120
\* the clock of the ingestion specification stops here
MaxIngestClock == 12

\* Config.max_concurrent: ThreadPoolExecutor(max_workers=...)
MaxConcurrent == 2

\* the threads the executor may start; it starts one per submitted job while
\* fewer than max_workers exist
Workers == {"w1", "w2", "w3"}
NoJob == <<>>
NoKey == <<>>

\* the event times of the debounce scenario (spec 8, scenario 5)
ScenarioEventTimes == {0, 30, 55}

\* study folders {inbox}/{clinic_id}/{study}
StudyKeys == {<<"cA", "s1">>}

\* Paths of filesystem events, as the segments below the inbox root;
\* under = FALSE is a path outside the inbox root.
InboxPaths ==
    {[under |-> TRUE, parts |-> q] :
        q \in {<<>>, <<"cA">>, <<"cA", "s1">>, <<"cA", "s1", "img.dcm">>,
               <<"cA", "s1", "sub", "img.dcm">>}}
    \cup {[under |-> FALSE, parts |-> <<"tmp", "x">>]}

\* Path(...).parent
Parent(path) ==
    IF Len(path.parts) = 0 THEN [under |-> FALSE, parts |-> <<>>]
    ELSE [path EXCEPT !.parts = SubSeq(path.parts, 1, Len(path.parts) - 1)]

\* watchdog events: created / modified, of a file or of a directory
FsEvents ==
    {[type |-> ty, is_directory |-> d, src_path |-> q] :
        ty \in {"created", "modified"}, d \in BOOLEAN, q \in InboxPaths}

\* a key that a bare tenant directory gets too
StudyKeyOfTenantToo(path) ==
    IF ~path.under \/ Len(path.parts) < 1 THEN NoKey
    ELSE IF Len(path.parts) = 1 THEN path.parts
    ELSE <<path.parts[1], path.parts[2]>>

\* a key made of every segment of the path
StudyKeyOfBroken(path) ==
    IF ~path.under THEN NoKey
    ELSE IF Len(path.parts) < 2 THEN NoKey
    ELSE path.parts

\* _handle_new_folder: the study key of a path (NoKey when it is ignored)
StudyKeyOf(path) ==
    IF ~path.under THEN NoKey
    ELSE IF Len(path.parts) < 2 THEN NoKey
    ELSE <<path.parts[1], path.parts[2]>>

\* on_created / on_modified: the path handed to _handle_new_folder
\* (NoKey's path when the event is dropped)
Dropped == [under |-> FALSE, parts |-> <<>>]
HandedPath(ev) ==
    IF ev.type = "created"
    THEN (IF ev.is_directory THEN ev.src_path ELSE Parent(ev.src_path))
    ELSE (IF ~ev.is_directory THEN Parent(ev.src_path) ELSE Dropped)

\* `self.pending_folders[folder_key] = time.time()`
NotePendingKeepFirst(p, key, t) ==
    IF key \in DOMAIN p THEN p
    ELSE [k \in DOMAIN p \cup {key} |-> IF k = key THEN t ELSE p[k]]
NotePending(p, key, t) ==
    [k \in DOMAIN p \cup {key} |-> IF k = key THEN t ELSE p[k]]

\* a collection that lets an entry age a tick period longer
ExpiredLate(p, now, cooldown) ==
    {k \in DOMAIN p : now - p[k] >= cooldown + TickPeriod + 1}

\* a collection with a cap on age: it also takes whatever is pending once
\* one and a half cooldowns have passed since startup
ExpiredAgeCapped(p, now, cooldown) ==
    {k \in DOMAIN p : now - p[k] >= cooldown \/ now >= cooldown + cooldown \div 2}

\* a collection that takes every entry
ExpiredAll(p, now, cooldown) == DOMAIN p

\* check_pending_folders: `now - timestamp >= self.config.cooldown_seconds`
Expired(p, now, cooldown) ==
    {k \in DOMAIN p : now - p[k] >= cooldown}

\* `del self.pending_folders[folder_key]` for every expired key
RemoveKeys(p, ks) == [k \in DOMAIN p \ ks |-> p[k]]

EmptyMap == [k \in {} |-> 0]

NoNote == [fate |-> "none", under |-> FALSE, parts |-> <<>>]

InitIngestCommon ==
    /\ inbox \in SUBSET StudyKeys
    /\ pending_folders = EmptyMap
    /\ mpc = "scan"
    /\ dnow = 0
    /\ dlist = {}
    /\ wakeAt = 0
    /\ shutdown_event = FALSE
    /\ observer_on = TRUE
    /\ queue = <<>>
    /\ running = [w \in Workers |-> NoJob]
    /\ lastEvent = EmptyMap
    /\ noted = {}
    /\ lastNote = NoNote
    /\ refreshed = {}
    /\ job_raised = FALSE
    /\ missed = {}
    /\ submitted = {}

\* the ingestion variables when the ingestion loop is not exercised
LoopQuiet ==
    /\ cooldown_seconds = IngestCooldown
    /\ pending_folders = EmptyMap
    /\ mpc = "exit"
    /\ dnow = 0
    /\ dlist = {}
    /\ wakeAt = 0
    /\ shutdown_event = FALSE
    /\ observer_on = FALSE
    /\ queue = <<>>
    /\ running = [w \in Workers |-> NoJob]
    /\ lastEvent = EmptyMap
    /\ noted = {}
    /\ lastNote = NoNote
    /\ refreshed = {}
    /\ job_raised = FALSE
    /\ missed = {}
    /\ submitted = {}

IngestQuiet == inbox = {} /\ LoopQuiet

\* the token variables when the token cache is not exercised
TokenQuiet ==
    /\ client_secret = TRUE
    /\ tm_token = NoToken
    /\ tm_expires = 0
    /\ tm_lock = NoThread
    /\ tpc = [t \in Threads |-> "idle"]
    /\ tret = [t \in Threads |-> NoToken]
    /\ tcall = [t \in Threads |-> NoCall]
    /\ nreq = 0
    /\ lastGrant = [at |-> 0, expires |-> 0]
    /\ ncalls = 0

\* _handle_new_folder(path) at the current time, under self._lock
HandleNewFolder(path) ==
    LET key == StudyKeyOf(path)
    IN  IF key = NoKey
        THEN UNCHANGED <<pending_folders, lastEvent, noted, refreshed>>
        ELSE /\ pending_folders' = NotePending(pending_folders, key, clock)
             /\ lastEvent' = [k \in DOMAIN lastEvent \cup {key} |->
                                 IF k = key THEN clock ELSE lastEvent[k]]
             /\ noted' = noted \cup ({clock} \cap ScenarioEventTimes)
             /\ refreshed' = IF /\ mpc = "collect"
                                /\ key \in DOMAIN pending_folders
                                /\ dnow - pending_folders[key] >= cooldown_seconds
                             THEN refreshed \cup {key} ELSE refreshed

\* the study directory {inbox}/{tenant}/{study} a path lies in or is
\* (NoKey when it lies in none)
EnclosingStudy(path) ==
    IF ~path.under \/ Len(path.parts) < 2 THEN NoKey
    ELSE SubSeq(path.parts, 1, 2)

\* What the filesystem does to raise the event: a directory created at depth 2
\* is a new study folder; an event at or below a study folder needs the folder.
EventPossible(ev) ==
    LET key == EnclosingStudy(ev.src_path)
    IN  \/ key = NoKey
        \/ key \in StudyKeys /\ key \in inbox
        \/ key \in StudyKeys /\ ev.type = "created" /\ ev.is_directory
                             /\ Len(ev.src_path.parts) = 2

\* an event the watcher can raise at or below a study folder: about the
\* folder itself or a directory in it, or about a file in it
AtOrBelowStudy(ev) ==
    /\ EnclosingStudy(ev.src_path) \in StudyKeys
    /\ ev.is_directory \/ Len(ev.src_path.parts) >= 3

\* the observer thread delivers an event to on_created / on_modified
OnEvent(ev) ==
    /\ observer_on
    /\ EventPossible(ev)
    /\ inbox' = IF /\ ev.type = "created" /\ ev.is_directory
                   /\ EnclosingStudy(ev.src_path) \in StudyKeys
                   /\ Len(ev.src_path.parts) = 2
                THEN inbox \cup {EnclosingStudy(ev.src_path)}
                ELSE inbox
    /\ HandleNewFolder(HandedPath(ev))
    /\ UNCHANGED <<clock, tokenVars, procVars, cooldown_seconds, mpc, dnow, dlist, wakeAt,
                   shutdown_event, observer_on, queue, running, lastNote, job_raised,
                   submitted>>
    /\ missed' = IF /\ AtOrBelowStudy(ev)
                     /\ ~ /\ EnclosingStudy(ev.src_path) \in DOMAIN pending_folders'
                          /\ pending_folders'[EnclosingStudy(ev.src_path)] = clock
                  THEN missed \cup {EnclosingStudy(ev.src_path)} ELSE missed

\* a scan that hands no directory to _handle_new_folder
ScannedStudiesNone(inb) == {}

\* main: the directories the startup scan hands to _handle_new_folder, the
\* directories inside the directories of the inbox root
ScannedStudies(inb) == inb

\* main: the scan of existing study directories at startup
MainScan ==
    /\ mpc = "scan"
    /\ LET found == ScannedStudies(inbox)
       IN  /\ pending_folders' = [k \in DOMAIN pending_folders \cup found |->
                                     IF k \in found THEN clock ELSE pending_folders[k]]
           /\ lastEvent' = [k \in DOMAIN lastEvent \cup found |->
                               IF k \in found THEN clock ELSE lastEvent[k]]
           /\ noted' = IF found = {} THEN noted
                       ELSE noted \cup ({clock} \cap ScenarioEventTimes)
    /\ mpc' = "check"
    /\ UNCHANGED <<clock, tokenVars, procVars, cooldown_seconds, inbox, dnow, dlist, wakeAt,
                   shutdown_event, observer_on, queue, running, historyVars>>

\* main loop: `while not shutdown_event.is_set()`, then
\* check_pending_folders: `now = time.time()`
DrainBegin ==
    /\ mpc = "check"
    /\ IF shutdown_event
       THEN mpc' = "finally" /\ UNCHANGED dnow
       ELSE mpc' = "collect" /\ dnow' = clock
    /\ UNCHANGED <<clock, tokenVars, procVars, cooldown_seconds, inbox, pending_folders, dlist,
                   wakeAt, shutdown_event, observer_on, queue, running, lastEvent,
                   noted, historyVars>>

\* check_pending_folders: the collection and removal under self._lock
DrainCollect ==
    /\ mpc = "collect"
    /\ LET ks == Expired(pending_folders, dnow, cooldown_seconds)
       IN  /\ dlist' = ks
           /\ pending_folders' = RemoveKeys(pending_folders, ks)
           /\ lastEvent' = RemoveKeys(lastEvent, ks)
    /\ mpc' = "submit"
    /\ UNCHANGED <<clock, tokenVars, procVars, cooldown_seconds, inbox, dnow, wakeAt,
                   shutdown_event, observer_on, queue, running, noted, historyVars>>

\* a test that finds every folder
FolderExistsAlways(k, inb) == TRUE

\* check_pending_folders: `folder_path.exists()`
FolderExists(k, inb) == k \in inb

\* check_pending_folders: `clinic_id = relative.parts[0]`
ClinicId(k) == k[1]

\* check_pending_folders: one turn of `for folder_key in folders_to_process`
DrainSubmit(k) ==
    /\ mpc = "submit"
    /\ k \in dlist
    /\ dlist' = dlist \ {k}
    /\ IF FolderExists(k, inbox)
       THEN /\ queue' = Append(queue, k)
            /\ submitted' = submitted \cup {[folder |-> k, clinic_id |-> ClinicId(k)]}
       ELSE UNCHANGED <<queue, submitted>>
    /\ UNCHANGED <<clock, tokenVars, procVars, cooldown_seconds, inbox, pending_folders, mpc,
                   dnow, wakeAt, shutdown_event, observer_on, running, lastEvent,
                   noted, lastNote, refreshed, job_raised, missed>>

\* check_pending_folders returns; main: shutdown_event.wait(timeout=5)
DrainEnd ==
    /\ mpc = "submit"
    /\ dlist = {}
    /\ mpc' = "wait"
    /\ wakeAt' = clock + TickPeriod
    /\ refreshed' = {}
    /\ UNCHANGED <<clock, tokenVars, procVars, cooldown_seconds, inbox, pending_folders, dnow,
                   dlist, shutdown_event, observer_on, queue, running, lastEvent,
                   noted, lastNote, job_raised, missed>>
    /\ submitted' = {}

\* a wait whose timeout never comes
TimedOutNever(now, due) == FALSE

\* shutdown_event.wait(timeout=5): the timeout has run out
TimedOut(now, due) == now >= due

\* shutdown_event.wait returns: on the timeout, or at once when the event is set
MainWake ==
    /\ mpc = "wait"
    /\ shutdown_event \/ TimedOut(clock, wakeAt)
    /\ mpc' = "check"
    /\ UNCHANGED <<clock, tokenVars, procVars, cooldown_seconds, inbox, pending_folders, dnow,
                   dlist, wakeAt, shutdown_event, observer_on, queue, running,
                   lastEvent, noted, historyVars>>

\* SIGTERM / SIGINT: signal_handler
Signal ==
    /\ ~shutdown_event
    /\ mpc \in {"check", "collect", "submit", "wait"}
    /\ shutdown_event' = TRUE
    /\ UNCHANGED <<clock, tokenVars, procVars, cooldown_seconds, inbox, pending_folders, mpc,
                   dnow, dlist, wakeAt, observer_on, queue, running, lastEvent, noted,
                   historyVars>>

\* main's finally: observer.stop(); observer.join()
ObserverStop ==
    /\ mpc = "finally"
    /\ observer_on' = FALSE
    /\ mpc' = "pool_shutdown"
    /\ UNCHANGED <<clock, tokenVars, procVars, cooldown_seconds, inbox, pending_folders, dnow,
                   dlist, wakeAt, shutdown_event, queue, running, lastEvent, noted,
                   historyVars>>

\* a shutdown that waits for the running jobs only
PoolDrainedRunningOnly(q, r) == \A w \in Workers : r[w] = NoJob

\* shutdown(wait=True): every thread has ended, which it does once the queue
\* is empty and its job is over
PoolDrained(q, r) == q = <<>> /\ \A w \in Workers : r[w] = NoJob

\* handler.shutdown(): self._executor.shutdown(wait=True) returns
HandlerShutdown ==
    /\ mpc = "pool_shutdown"
    /\ PoolDrained(queue, running)
    /\ mpc' = "exit"
    /\ UNCHANGED <<clock, tokenVars, procVars, cooldown_seconds, inbox, pending_folders, dnow,
                   dlist, wakeAt, shutdown_event, observer_on, queue, running,
                   lastEvent, noted, historyVars>>

\* a pool that starts a thread for every waiting job
PoolHasRoomAlways(r) == TRUE

\* the executor has an idle thread or may still start one
PoolHasRoom(r) == Cardinality({w \in Workers : r[w] # NoJob}) < MaxConcurrent

\* an executor thread takes the next submitted job
WorkerStart(w) ==
    /\ running[w] = NoJob
    /\ PoolHasRoom(running)
    /\ queue # <<>>
    /\ running' = [running EXCEPT ![w] = Head(queue)]
    /\ queue' = Tail(queue)
    /\ UNCHANGED <<clock, tokenVars, procVars, cooldown_seconds, inbox, pending_folders, mpc,
                   dnow, dlist, wakeAt, shutdown_event, observer_on, lastEvent, noted,
                   historyVars>>

\* a main thread that receives the job's exception
LoopAfterJobRaises(pc, moved) == IF moved THEN pc ELSE "finally"

\* the Future returned by executor.submit is dropped: whatever the job
\* returns or raises, the main thread stays where it is
LoopAfterJob(pc, moved) == pc

\* process_study_folder ends: the folder was moved out of the inbox, or
\* (moved = FALSE) even the quarantine failed, the exception left the call
\* and the folder stays
WorkerFinish(w, moved) ==
    /\ running[w] # NoJob
    /\ inbox' = IF moved THEN inbox \ {running[w]} ELSE inbox
    /\ running' = [running EXCEPT ![w] = NoJob]
    /\ job_raised' = (job_raised \/ ~moved)
    /\ mpc' = LoopAfterJob(mpc, moved)
    /\ UNCHANGED <<clock, tokenVars, procVars, cooldown_seconds, pending_folders, dnow,
                   dlist, wakeAt, shutdown_event, observer_on, queue, lastEvent,
                   noted, lastNote, refreshed, missed, submitted>>

\* time passes
IngestTick ==
    /\ clock < MaxIngestClock
    /\ clock' = clock + 1
    /\ UNCHANGED <<tokenVars, ingestVars, procVars>>

NextIngest ==
    \/ \E ev \in FsEvents : OnEvent(ev)
    \/ MainScan
    \/ DrainBegin
    \/ DrainCollect
    \/ \E k \in StudyKeys : DrainSubmit(k)
    \/ DrainEnd
    \/ MainWake
    \/ Signal
    \/ ObserverStop
    \/ HandlerShutdown
    \/ \E w \in Workers : WorkerStart(w)
    \/ \E w \in Workers, moved \in BOOLEAN : WorkerFinish(w, moved)
    \/ IngestTick

\* the clock of the liveness specification stops here
MaxLiveClock == 10

\* the liveness specification has its events before this time
LiveEventsUntil == 3

\* Liveness scenario: the events come early, then the folders are left alone
LiveEvent ==
    /\ clock < LiveEventsUntil
    /\ \E ev \in FsEvents : OnEvent(ev)

\* Liveness scenario: time passes while the main thread waits for its
\* timeout, or is late to start the next drain
LiveTick ==
    /\ clock < MaxLiveClock
    /\ mpc = "check" \/ (mpc = "wait" /\ clock < wakeAt)
    /\ clock' = clock + 1
    /\ UNCHANGED <<tokenVars, ingestVars, procVars>>

\* no SIGTERM / SIGINT arrives
NextLive ==
    \/ LiveEvent
    \/ MainScan
    \/ DrainBegin
    \/ DrainCollect
    \/ \E k \in StudyKeys : DrainSubmit(k)
    \/ DrainEnd
    \/ MainWake
    \/ \E w \in Workers : WorkerStart(w)
    \/ \E w \in Workers, moved \in BOOLEAN : WorkerFinish(w, moved)
    \/ LiveTick

\* the main thread and the executor threads keep running, time passes, and a
\* job that has started ends
LiveFairness ==
    /\ WF_vars(MainScan)
    /\ WF_vars(DrainBegin)
    /\ WF_vars(DrainCollect)
    /\ WF_vars(\E k \in StudyKeys : DrainSubmit(k))
    /\ WF_vars(DrainEnd)
    /\ WF_vars(MainWake)
    /\ WF_vars(LiveTick)
    /\ WF_vars(\E w \in Workers : WorkerStart(w))
    /\ WF_vars(\E w \in Workers, moved \in BOOLEAN : WorkerFinish(w, moved))

\* Debounce scenario: an event in the study folder at one of the scenario's
\* times
ScenarioEvent ==
    /\ clock \in ScenarioEventTimes
    /\ \E ev \in FsEvents :
          /\ EnclosingStudy(HandedPath(ev)) \in StudyKeys
          /\ OnEvent(ev)

\* Debounce scenario: time passes while the main thread waits for its timeout,
\* or is late to start the next drain
DebounceTick ==
    /\ clock < MaxDebounceClock
    /\ mpc = "check" \/ (mpc = "wait" /\ clock < wakeAt)
    /\ clock' = clock + 1
    /\ UNCHANGED <<tokenVars, ingestVars, procVars>>

NextDebounce ==
    \/ ScenarioEvent
    \/ MainScan
    \/ DrainBegin
    \/ DrainCollect
    \/ \E k \in StudyKeys : DrainSubmit(k)
    \/ DrainEnd
    \/ MainWake
    \/ DebounceTick

\* the clock of the note specification stops here
MaxNoteClock == 6

\* _handle_new_folder is called with any path
NoteCall(path) ==
    /\ HandleNewFolder(path)
    /\ lastNote' = [fate |-> IF StudyKeyOf(path) = NoKey THEN "ignored" ELSE "noted",
                    under |-> path.under, parts |-> path.parts]
    /\ UNCHANGED <<clock, tokenVars, procVars, cooldown_seconds, inbox, mpc, dnow, dlist,
                   wakeAt, shutdown_event, observer_on, queue, running, job_raised, missed,
                   submitted>>

\* time passes between calls
NoteTick ==
    /\ clock < MaxNoteClock
    /\ clock' = clock + 1
    /\ UNCHANGED <<tokenVars, ingestVars, procVars>>

NextNote ==
    \/ \E path \in InboxPaths : NoteCall(path)
    \/ NoteTick

(***************************************************************************)
(* DicomProcessor: process_study_folder, _move_to_processed,               *)
(* _move_to_failed                                                         *)
(***************************************************************************)

Procs == {"p1", "p2"}

\* the study folder each call is given (both under the tenant cA)
StudyOf(p) == IF p = "p1" THEN <<"cA", "s1">> ELSE <<"cA", "s2">>

ProcStudies == {StudyOf(p) : p \in Procs}

Roots == {"processed", "failed"}

NoStamp == -1

\* the HHMMSS values datetime.now() can yield while a call runs
Stamps == {0, 1}

NoDest == <<>>

NoExc == "none"

NoReason == [msg |-> "", n |-> 0]

\* the files a study folder may hold: name, suffix, whether pydicom can read
\* the file, and the InstitutionName stored in it
FilePool ==
    { [name |-> "a.dcm", suffix |-> ".dcm", dicom |-> TRUE, institution |-> "Original"],
      [name |-> "b.DCM", suffix |-> ".DCM", dicom |-> FALSE, institution |-> ""],
      [name |-> "c", suffix |-> "", dicom |-> TRUE, institution |-> "cB"],
      [name |-> "readme.txt", suffix |-> ".txt", dicom |-> FALSE, institution |-> ""],
      [name |-> "d.Dcm", suffix |-> ".Dcm", dicom |-> TRUE, institution |-> "Original"],
      [name |-> "e.json", suffix |-> ".json", dicom |-> TRUE, institution |-> "Original"] }

\* the most files a folder of the discovery specification holds
MaxFiles == 3

FileNamed(n) == CHOOSE f \in FilePool : f.name = n

Layouts ==
    { {FileNamed("readme.txt")},
      {FileNamed("a.dcm")},
      {FileNamed("b.DCM")},
      {FileNamed("a.dcm"), FileNamed("b.DCM")},
      {FileNamed("a.dcm"), FileNamed("c")} }

\* str.lower() on the suffixes of the pool
Lower(sfx) ==
    CASE sfx = ".DCM" -> ".dcm"
      [] sfx = ".Dcm" -> ".dcm"
      [] sfx = ".TXT" -> ".txt"
      [] OTHER -> sfx

SkippedSuffixes == {".dcm", ".json", ".txt", ".log"}

RECURSIVE SeqOfFiles(_)
SeqOfFiles(S) ==
    IF S = {} THEN <<>>
    ELSE LET f == CHOOSE x \in S : TRUE
         IN  <<f>> \o SeqOfFiles(S \ {f})

\* dicom_files: glob('**/*.dcm') + glob('**/*.DCM'), then every other file
\* whose lowered suffix is not skipped and that a metadata read accepts
DiscoverFiles(files) ==
    LET lower  == {f \in files : f.suffix = ".dcm"}
        upper  == {f \in files : f.suffix = ".DCM"}
        probed == {f \in files : /\ Lower(f.suffix) \notin SkippedSuffixes
                                 /\ f.dicom
                                 /\ f \notin lower \cup upper}
    IN  SeqOfFiles(lower) \o SeqOfFiles(upper) \o SeqOfFiles(probed)

\* the outcomes of _process_single_file on one file
FileResults(f, present) ==
    IF ~present THEN {"read_error"}
    ELSE IF ~f.dicom THEN {"invalid_dicom"}
    ELSE {"ok", "upload_failed"}

\* pydicom.dcmread(file_path): the dataset of a readable file
ReadDataset(f) == [InstitutionName |-> f.institution, file |-> f.name]

\* a tagging step that keeps the dataset as read
TagInstitutionBroken(ds, clinic_id) == ds

\* `ds.InstitutionName = clinic_id`
TagInstitution(ds, clinic_id) == [ds EXCEPT !.InstitutionName = clinic_id]

\* a classification that lacks the `elif success_count > 0` branch
ClassifyBroken(success_count, error_count) ==
    IF error_count = 0 THEN "success" ELSE "failed"

\* the branch taken at `if error_count == 0 / elif success_count > 0 / else`
Classify(success_count, error_count) ==
    IF error_count = 0 THEN "success"
    ELSE IF success_count > 0 THEN "partial"
    ELSE "failed"

TargetOf(outcome) == IF outcome = "failed" THEN "failed" ELSE "processed"

\* entries of a date directory: a path below it, each component a study
\* basename with an optional _HHMMSS suffix
EntryName(base, stamp) == [base |-> base, stamp |-> stamp]

Plain(base) == <<EntryName(base, NoStamp)>>

Stamped(base, stamp) == <<EntryName(base, stamp)>>

\* dest_path as the move helpers compute it
DestPath(entries, base, stamp) ==
    IF Plain(base) \in entries THEN Stamped(base, stamp) ELSE Plain(base)

\* shutil.move(src, dest_path): into dest_path when it does not exist, into
\* dest_path/basename(src) when it is a directory, an error when that exists
\* too or when the source is gone or the operating system refuses
ShutilMove(entries, present, base, stamp, io) ==
    LET dest_path == DestPath(entries, base, stamp)
        inside    == Append(dest_path, EntryName(base, NoStamp))
    IN  IF io = "os_error" \/ ~present
        THEN [raised |-> TRUE, entries |-> entries, dest |-> NoDest]
        ELSE IF dest_path \notin entries
        THEN [raised |-> FALSE, entries |-> entries \cup {dest_path},
              dest |-> dest_path]
        ELSE IF inside \notin entries
        THEN [raised |-> FALSE, entries |-> entries \cup {inside},
              dest |-> dest_path]
        ELSE [raised |-> TRUE, entries |-> entries, dest |-> NoDest]

ErrorRecord(stamp, study, reason, errors) ==
    [timestamp |-> stamp, study_folder |-> study[2], clinic_id |-> study[1],
     reason |-> reason, errors |-> errors]

\* open(error_file, 'w') + json.dump: the record named after dest_path
WriteRecord(recs, dest, rec) ==
    [k \in DOMAIN recs \cup {dest[1]} |-> IF k = dest[1] THEN rec ELSE recs[k]]

MoveIO == {"ok", "os_error", "write_error"}

NoLocals ==
    [files |-> <<>>, idx |-> 1, success_count |-> 0, error_count |-> 0,
     errors |-> <<>>, outcome |-> "none", reason |-> NoReason,
     exc |-> NoExc, ret |-> "none", counted |-> <<>>, root |-> "none",
     dest |-> NoDest, logs |-> {}, posted |-> <<>>, attempts |-> <<>>]

InProgress == {"discover", "loop", "classify", "move", "except", "finally"}

\* a decrement placed on the returning paths only
GaugeAtExitBroken(gauge, ret) == IF ret = "raised" THEN gauge ELSE gauge - 1

\* ACTIVE_IMPORTS.dec() in the finally block
GaugeAtExit(gauge, ret) == gauge - 1

InitProcCommon ==
    /\ layout \in [ProcStudies -> Layouts]
    /\ tree \in [Roots -> { {}, {Plain("s1")}, {Plain("s1"), Stamped("s1", 0)} }]
    /\ records = [k \in {e[1] : e \in tree["failed"]} |->
                    ErrorRecord(0, <<"cA", "s1">>, [msg |-> "earlier", n |-> 0], <<>>)]
    /\ active = 0
    /\ ppc = [p \in Procs |-> "idle"]
    /\ pst = [p \in Procs |-> NoLocals]

\* discovery alone: any folder of at most MaxFiles files of the pool
InitDiscover ==
    /\ clock = 0
    /\ TokenQuiet
    /\ LoopQuiet
    /\ inbox = ProcStudies
    /\ layout \in [ProcStudies -> {fs \in SUBSET FilePool : Cardinality(fs) <= MaxFiles}]
    /\ tree = [r \in Roots |-> {}]
    /\ records = EmptyMap
    /\ active = 0
    /\ ppc = [p \in Procs |-> "idle"]
    /\ pst = [p \in Procs |-> NoLocals]

InitProc ==
    /\ clock = 0
    /\ TokenQuiet
    /\ LoopQuiet
    /\ inbox = ProcStudies
    /\ InitProcCommon

\* the processor variables when the processor is not exercised
ProcQuiet ==
    /\ layout = [s \in ProcStudies |-> {}]
    /\ tree = [r \in Roots |-> {}]
    /\ records = EmptyMap
    /\ active = 0
    /\ ppc = [p \in Procs |-> "done"]
    /\ pst = [p \in Procs |-> NoLocals]

ProcFrame == UNCHANGED <<clock, tokenVars, cooldown_seconds, pending_folders, mpc, dnow,
                         dlist, wakeAt, shutdown_event, observer_on, queue, running,
                         lastEvent, noted, historyVars>>

\* process_study_folder is entered: ACTIVE_IMPORTS.inc()
PEnter(p) ==
    /\ ppc[p] = "idle"
    /\ active' = active + 1
    /\ ppc' = [ppc EXCEPT ![p] = "discover"]
    /\ UNCHANGED <<inbox, layout, tree, records, pst>>
    /\ ProcFrame

\* discovery; an empty dicom_files goes straight to the quarantine
PDiscover(p) ==
    /\ ppc[p] = "discover"
    /\ LET found == IF StudyOf(p) \in inbox
                    THEN DiscoverFiles(layout[StudyOf(p)]) ELSE <<>>
       IN  IF found = <<>>
           THEN /\ pst' = [pst EXCEPT
                      ![p].outcome = "failed",
                      ![p].reason = [msg |-> "No DICOM files found", n |-> 0],
                      ![p].logs = @ \cup {[msg |-> "No DICOM files found in study folder",
                                           about |-> NoExc]}]
                /\ ppc' = [ppc EXCEPT ![p] = "move"]
           ELSE /\ pst' = [pst EXCEPT
                      ![p].files = found,
                      ![p].logs = @ \cup {[msg |-> "Found DICOM files", about |-> NoExc]}]
                /\ ppc' = [ppc EXCEPT ![p] = "loop"]
    /\ UNCHANGED <<inbox, layout, tree, records, active>>
    /\ ProcFrame

\* a loop that gives up at the first failing file
AfterFileAbort(idx, n, res) == IF idx = n \/ res # "ok" THEN "classify" ELSE "loop"

\* `for dicom_file in dicom_files`: the except clause of the loop body keeps
\* the loop going, which ends after the last file
AfterFile(idx, n, res) == IF idx = n THEN "classify" ELSE "loop"

\* one iteration of `for dicom_file in dicom_files`: _process_single_file
\* reads the file, tags the dataset and hands it to _upload_stow_rs
PFile(p, res) ==
    /\ ppc[p] = "loop"
    /\ LET st == pst[p]
           f  == st.files[st.idx]
       IN  /\ res \in FileResults(f, StudyOf(p) \in inbox)
           /\ pst' = [pst EXCEPT
                 ![p].idx = @ + 1,
                 ![p].success_count = IF res = "ok" THEN @ + 1 ELSE @,
                 ![p].error_count = IF res = "ok" THEN @ ELSE @ + 1,
                 ![p].errors = IF res = "ok" THEN @
                               ELSE Append(@, [file |-> f.name, error |-> res]),
                 ![p].attempts = Append(@, f.name),
                 ![p].posted = IF res \in {"ok", "upload_failed"}
                               THEN Append(@, TagInstitution(ReadDataset(f), StudyOf(p)[1]))
                               ELSE @,
                 ![p].logs = IF res = "ok" THEN @
                             ELSE @ \cup {[msg |-> "Failed to process file",
                                           about |-> NoExc]}]
           /\ ppc' = [ppc EXCEPT ![p] = AfterFile(st.idx, Len(st.files), res)]
    /\ UNCHANGED <<inbox, layout, tree, records, active>>
    /\ ProcFrame

OutcomeLog(outcome) ==
    CASE outcome = "success" -> "Study imported successfully"
      [] outcome = "partial" -> "Study partially imported"
      [] OTHER -> "Study import failed completely"

\* "Determine overall success": the branch and its log line
PClassify(p) ==
    /\ ppc[p] = "classify"
    /\ LET st      == pst[p]
           outcome == Classify(st.success_count, st.error_count)
       IN  pst' = [pst EXCEPT
                 ![p].outcome = outcome,
                 ![p].reason = IF outcome = "failed"
                               THEN [msg |-> "All files failed", n |-> st.error_count]
                               ELSE NoReason,
                 ![p].logs = @ \cup {[msg |-> OutcomeLog(outcome), about |-> NoExc]}]
    /\ ppc' = [ppc EXCEPT ![p] = "move"]
    /\ UNCHANGED <<inbox, layout, tree, records, active>>
    /\ ProcFrame

\* _move_to_processed, then the counter and the return value of the branch;
\* an exception of the helper enters the except block
MoveToProcessed(p, io, stamp, status) ==
    LET study == StudyOf(p)
        mv    == ShutilMove(tree["processed"], study \in inbox, study[2], stamp, io)
    IN  IF mv.raised
        THEN /\ pst' = [pst EXCEPT ![p].exc = "processed move failed"]
             /\ ppc' = [ppc EXCEPT ![p] = "except"]
             /\ UNCHANGED <<inbox, tree, records>>
        ELSE /\ inbox' = inbox \ {study}
             /\ tree' = [tree EXCEPT !["processed"] = mv.entries]
             /\ pst' = [pst EXCEPT
                   ![p].root = "processed",
                   ![p].dest = mv.dest,
                   ![p].counted = Append(@, status),
                   ![p].ret = "True",
                   ![p].logs = @ \cup {[msg |-> "Study moved to processed",
                                        about |-> NoExc]}]
             /\ ppc' = [ppc EXCEPT ![p] = "finally"]
             /\ UNCHANGED records

\* _move_to_failed(study_path, clinic_id, reason, errors): the move, then the
\* error record; on return the caller counts `status` and returns False.
\* `loc` are the locals at the call, `handled` says whether the call is made
\* inside the try block (an exception enters the except block) or inside
\* the except block (an exception leaves process_study_folder)
MoveToFailed(p, loc, io, stamp, reason, errors, status, handled) ==
    LET study == StudyOf(p)
        mv    == ShutilMove(tree["failed"], study \in inbox, study[2], stamp, io)
        Raise(l, kind) == IF handled THEN [l EXCEPT ![p].exc = kind]
                          ELSE [l EXCEPT ![p].ret = "raised"]
        after == [ppc EXCEPT ![p] = IF handled THEN "except" ELSE "finally"]
    IN  IF mv.raised
        THEN /\ pst' = Raise(loc, "quarantine move failed")
             /\ ppc' = after
             /\ UNCHANGED <<inbox, tree, records>>
        ELSE /\ inbox' = inbox \ {study}
             /\ tree' = [tree EXCEPT !["failed"] = mv.entries]
             /\ IF io = "write_error"
                THEN /\ pst' = Raise([loc EXCEPT ![p].root = "failed",
                                                 ![p].dest = mv.dest],
                                     "error record write failed")
                     /\ ppc' = after
                     /\ UNCHANGED records
                ELSE /\ records' = WriteRecord(records, mv.dest,
                                       ErrorRecord(stamp, study, reason, errors))
                     /\ pst' = [loc EXCEPT
                           ![p].root = "failed",
                           ![p].dest = mv.dest,
                           ![p].counted = Append(@, status),
                           ![p].ret = "False",
                           ![p].logs = @ \cup {[msg |-> "Study moved to failed",
                                                about |-> NoExc]}]
                     /\ ppc' = [ppc EXCEPT ![p] = "finally"]

\* the move of the branch chosen in the try block
PMove(p, io, stamp) ==
    /\ ppc[p] = "move"
    /\ IF TargetOf(pst[p].outcome) = "processed"
       THEN /\ io # "write_error"
            /\ MoveToProcessed(p, io, stamp, pst[p].outcome)
       ELSE MoveToFailed(p, pst, io, stamp, pst[p].reason, pst[p].errors, "failed", TRUE)
    /\ UNCHANGED <<layout, active>>
    /\ ProcFrame

\* `except Exception as e`: log.exception, _move_to_failed(.., str(e)),
\* status 'error'; an exception raised here leaves process_study_folder
PExcept(p, io, stamp) ==
    /\ ppc[p] = "except"
    /\ LET logged == [pst EXCEPT
                 ![p].logs = @ \cup {[msg |-> "Unexpected error processing study",
                                      about |-> pst[p].exc]}]
       IN  MoveToFailed(p, logged, io, stamp, [msg |-> pst[p].exc, n |-> 0], <<>>,
                        "error", FALSE)
    /\ UNCHANGED <<layout, active>>
    /\ ProcFrame

\* `finally`: ACTIVE_IMPORTS.dec(), then the call is over
PFinally(p) ==
    /\ ppc[p] = "finally"
    /\ active' = GaugeAtExit(active, pst[p].ret)
    /\ ppc' = [ppc EXCEPT ![p] = "done"]
    /\ UNCHANGED <<inbox, layout, tree, records, pst>>
    /\ ProcFrame

NextProc ==
    \/ \E p \in Procs : PEnter(p)
    \/ \E p \in Procs : PDiscover(p)
    \/ \E p \in Procs, res \in {"ok", "invalid_dicom", "upload_failed", "read_error"} :
          PFile(p, res)
    \/ \E p \in Procs : PClassify(p)
    \/ \E p \in Procs, io \in MoveIO, stamp \in Stamps : PMove(p, io, stamp)
    \/ \E p \in Procs, io \in MoveIO, stamp \in Stamps : PExcept(p, io, stamp)
    \/ \E p \in Procs : PFinally(p)

(***************************************************************************)
(* Specifications                                                          *)
(***************************************************************************)

InitTokenSpec ==
    /\ clock = 0
    /\ InitToken
    /\ IngestQuiet
    /\ ProcQuiet

SpecToken == InitTokenSpec /\ [][NextToken]_vars

InitIngest ==
    /\ clock = 0
    /\ TokenQuiet
    /\ cooldown_seconds = IngestCooldown
    /\ InitIngestCommon
    /\ ProcQuiet

SpecIngest == InitIngest /\ [][NextIngest]_vars

InitDebounce ==
    /\ clock = 0
    /\ TokenQuiet
    /\ cooldown_seconds = DebounceCooldown
    /\ InitIngestCommon
    /\ ProcQuiet

SpecDebounce == InitDebounce /\ [][NextDebounce]_vars

SpecLive == InitIngest /\ [][NextLive]_vars /\ LiveFairness

SpecProc == InitProc /\ [][NextProc]_vars

InitNote ==
    /\ clock = 0
    /\ TokenQuiet
    /\ IngestQuiet
    /\ ProcQuiet

SpecNote == InitNote /\ [][NextNote]_vars

NextDiscover ==
    \/ \E p \in Procs : PEnter(p)
    \/ \E p \in Procs : PDiscover(p)

SpecDiscover == InitDiscover /\ [][NextDiscover]_vars

(***************************************************************************)
(* Properties of the readiness tracker and the ingestion loop              *)
(***************************************************************************)

\* C1 (as stated): no study folder is being processed by two executor threads
\* at the same time.
C1_ExclusiveProcessing ==
    \A w1, w2 \in Workers :
        (w1 # w2 /\ running[w1] # NoJob) => running[w1] # running[w2]

\* C2: a drain promotes a study folder only when its `now` is at least
\* cooldown_seconds after the most recent event noted for the folder; with
\* events at t = 0, 30, 55 and cooldown 60 a promoting drain has now >= 115.
C2_Debounce ==
    [][(mpc = "collect" /\ mpc' = "submit") =>
          \A k \in dlist' :
              /\ k \in DOMAIN lastEvent
              /\ dnow - lastEvent[k] >= cooldown_seconds
              /\ (noted = ScenarioEventTimes /\ cooldown_seconds = 60)
                    => dnow >= 115]_vars

\* C2 witness: after events at 0, 30 and 55 the drain at t = 115 has promoted
\* the folder.
C2_Witness ==
    /\ mpc = "submit"
    /\ dlist # {}
    /\ dnow = 115
    /\ noted = ScenarioEventTimes
    /\ cooldown_seconds = 60

(***************************************************************************)
(* Properties of the token cache (checked under SpecToken)                 *)
(***************************************************************************)

\* a caller whose call has passed get_token's test of the cache
Decided(t) == tcall[t].hit \/ tcall[t].refreshed

\* C7 (as amended): at most one token POST is in flight at a time; a caller
\* that waited for the lock during a refresh which stored a token still more
\* than 60 s from expiry when the caller tests the cache returns a token
\* without sending a request of its own; no POST is sent earlier than 60 s
\* before the expiry stored by the last successful refresh; and after a first
\* refresh answered with expires_in = 300 no second POST is sent in the next
\* 30 s.
C7_SingleRefreshPerWindow ==
    /\ Cardinality({t \in Threads : tpc[t] = "posting"}) <= 1
    /\ \A t \in Threads :
          (/\ tpc[t] = "done"
           /\ tcall[t].awaited > 0
           /\ tcall[t].checkAt < tcall[t].awaited - Margin)
          => (tcall[t].sent = 0 /\ tret[t] # NoToken)
    /\ \A t \in Threads :
          (/\ tpc[t] = "posting"
           /\ lastGrant.expires > 0
           /\ tcall[t].checkAt >= lastGrant.at)
          => tcall[t].checkAt >= lastGrant.expires - Margin
    /\ (/\ tm_token = 1
        /\ lastGrant.expires = lastGrant.at + 300
        /\ clock <= lastGrant.at + 30)
       => nreq = 1

\* C7 witness: a caller that waited during a successful refresh has returned
\* the stored token without a request of its own.
C7_Witness ==
    \E t \in Threads :
        /\ tpc[t] = "done"
        /\ tcall[t].waited # NoThread
        /\ tcall[t].awaited > 0
        /\ tcall[t].checkAt < tcall[t].awaited - Margin
        /\ tcall[t].sent = 0
        /\ tret[t] = tm_token
        /\ tret[t] # NoToken

\* C7 (as stated): a caller that waited during a refresh which stored a new
\* token returns it without issuing a request of its own.
C7_WaiterNeverRequests ==
    \A t \in Threads : tcall[t].awaited > 0 => tcall[t].sent = 0

\* C8 (as stated): get_token returns the cached token without a refresh
\* exactly when a token is cached and now <= expiry - 60.
C8_CacheHitIffAtLeastMargin ==
    \A t \in Threads :
        Decided(t) =>
            (tcall[t].hit <=>
                (tcall[t].preToken # NoToken
                 /\ tcall[t].checkAt <= tcall[t].preExpires - Margin))

\* C9 (as stated): every token returned by get_token has at least 60 s of
\* lifetime left when it is returned.
C9_ReturnedTokenHasMargin ==
    \A t \in Threads :
        (tpc[t] = "done" /\ tret[t] # NoToken) => tcall[t].remaining >= Margin

\* C10 (as stated): after a failed refresh get_token returns None and
\* (_token, _token_expires) are what they were before the call.
C10_FailedRefreshKeepsCache ==
    \A t \in Threads :
        (tpc[t] = "done" /\ tcall[t].failed) =>
            /\ tret[t] = NoToken
            /\ tm_token = tcall[t].preToken
            /\ tm_expires = tcall[t].preExpires

\* C13: however many notes arrive for a study folder, by its own path or by
\* paths below it, the pending map holds one entry for it, keyed by
\* tenant/study, whose timestamp is that of the latest note.
C13_NoteIdempotent ==
    /\ DOMAIN pending_folders \subseteq StudyKeys
    /\ \A k \in DOMAIN pending_folders :
          /\ k \in DOMAIN lastEvent
          /\ pending_folders[k] = lastEvent[k]

\* the folder was noted at 0 and again at 1, before any drain could promote
\* it, and the map holds its one entry stamped 1
C13_Witness ==
    /\ clock = 1
    /\ 0 \in noted
    /\ DOMAIN pending_folders = {<<"cA", "s1">>}
    /\ pending_folders[<<"cA", "s1">>] = 1

OutsideOrShallow(n) == ~n.under \/ Len(n.parts) < 2

\* C14: a call of _handle_new_folder with a path outside the inbox root, or
\* with fewer than two segments below it, leaves the pending map as it was.
C14_IgnoredPathLeavesMap ==
    [][(lastNote' # lastNote /\ OutsideOrShallow(lastNote'))
          => pending_folders' = pending_folders]_vars

\* a bare tenant directory was handed in while the map held an entry
C14_Witness ==
    /\ lastNote.fate = "ignored"
    /\ lastNote.parts = <<"cA">>
    /\ DOMAIN pending_folders = {<<"cA", "s1">>}

\* C15: the drain collects and removes in one step, and an entry that was due
\* when the drain read its `now` but was noted again before the drain took
\* the lock stays in the pending map, with the note's timestamp, and is not
\* promoted by that drain.
C15_DrainLinearizable ==
    [][(mpc = "collect" /\ mpc' = "submit") =>
          /\ DOMAIN pending_folders' = DOMAIN pending_folders \ dlist'
          /\ \A k \in refreshed :
                /\ k \notin dlist'
                /\ k \in DOMAIN pending_folders'
                /\ pending_folders'[k] = pending_folders[k]]_vars

\* a drain has collected nothing although the folder was due at its `now`:
\* the note that came in between kept the entry pending
C15_Witness ==
    /\ mpc = "submit"
    /\ refreshed = {<<"cA", "s1">>}
    /\ dlist = {}
    /\ <<"cA", "s1">> \in DOMAIN pending_folders
    /\ pending_folders[<<"cA", "s1">>] >= dnow

\* check_pending_folders has just returned
DrainJustEnded == mpc = "wait" /\ wakeAt = clock + TickPeriod

Busy == {w \in Workers : running[w] # NoJob}

\* C17: never more than max_concurrent study folders are being processed;
\* a folder promoted while the pool is full waits in the executor's queue.
C17_BoundedConcurrency == Cardinality(Busy) <= MaxConcurrent

\* the pool is full and a further promoted folder waits in the queue
C17_Witness ==
    /\ Cardinality(Busy) = MaxConcurrent
    /\ queue # <<>>

TickerStopped == mpc \in {"finally", "pool_shutdown", "exit"}

\* C18: shutdown goes in this order: the ticker stops (the main loop ends),
\* the watcher is stopped, the pool is waited for; it completes only when
\* no submitted job is queued or running, and a job leaves the queue only by
\* being started.
C18_ShutdownOrder ==
    /\ [](/\ ~observer_on => mpc \in {"pool_shutdown", "exit"}
          /\ mpc \in {"pool_shutdown", "exit"} => ~observer_on
          /\ TickerStopped => shutdown_event
          /\ mpc = "exit" => (queue = <<>> /\ Busy = {}))
    /\ [][queue' # queue =>
             \/ \E k \in StudyKeys : queue' = Append(queue, k) /\ ~TickerStopped
             \/ /\ queue # <<>>
                /\ queue' = Tail(queue)
                /\ \E w \in Workers : running[w] = NoJob /\ running'[w] = Head(queue)]_vars

\* the pool is being waited for while a job runs and another is still queued
C18_Witness ==
    /\ mpc = "pool_shutdown"
    /\ Busy # {}
    /\ queue # <<>>

\* the order as stated: the watcher is stopped before the ticker, so the
\* ticker is never found stopped while the watcher still delivers events
C18_WatcherStopsBeforeTicker == TickerStopped => ~observer_on

\* C19: the end of a job, whatever its outcome, changes nothing of the main
\* thread: its position, the pending map, the folders collected and the
\* queue stay as they are, and the loop ends only after a shutdown signal.
C19_WorkerFailureStaysInWorker ==
    /\ [](TickerStopped => shutdown_event)
    /\ [][(\E w \in Workers : running[w] # NoJob /\ running'[w] = NoJob) =>
             /\ mpc' = mpc
             /\ shutdown_event' = shutdown_event
             /\ pending_folders' = pending_folders
             /\ dlist' = dlist
             /\ queue' = queue]_vars

\* after a job ended with an escaping exception and every job is over, the
\* ticker has drained again and is about to submit the folder
C19_Witness ==
    /\ job_raised
    /\ ~shutdown_event
    /\ Busy = {} /\ queue = <<>>
    /\ mpc = "submit"
    /\ dlist # {} /\ dlist \subseteq inbox

\* C11: without a client secret every get_token call returns None, no token
\* request is ever sent and the cache stays empty.
C11_NoSecretNoRequest ==
    ~client_secret =>
        /\ nreq = 0
        /\ tm_token = NoToken
        /\ \A t \in Threads :
              /\ tpc[t] # "posting"
              /\ tpc[t] = "done" => tret[t] = NoToken /\ tcall[t].sent = 0

\* without a secret, a call has gone through _refresh_token and returned,
\* after earlier calls did the same
C11_Witness ==
    /\ ~client_secret
    /\ ncalls >= 3
    /\ \E t \in Threads : tpc[t] = "done" /\ tcall[t].refreshed /\ tret[t] = NoToken

(***************************************************************************)
(* Properties of the study processor (checked under SpecProc)              *)
(***************************************************************************)

Finished(p) == ppc[p] = "done"

\* the call's folder lies at the destination its move helper computed
MovedTo(p, root) ==
    /\ StudyOf(p) \notin inbox
    /\ pst[p].root = root
    /\ pst[p].dest # NoDest
    /\ pst[p].dest \in tree[root]

HasRecord(p) ==
    /\ pst[p].dest # NoDest
    /\ pst[p].dest[1] \in DOMAIN records
    /\ records[pst[p].dest[1]].study_folder = StudyOf(p)[2]
    /\ records[pst[p].dest[1]].clinic_id = StudyOf(p)[1]

\* C3: once process_study_folder has returned or raised, the study folder is
\* gone from its inbox path, or it is still there because the quarantine move
\* failed and a log entry records that failure.
C3_FolderGoneOrFailureLogged ==
    \A p \in Procs :
        Finished(p) =>
            \/ StudyOf(p) \notin inbox
            \/ /\ pst[p].ret = "raised"
               /\ \E e \in pst[p].logs : e.about = "quarantine move failed"

\* C4: when the move of the chosen branch succeeds, s uploaded and m failed
\* instances give: s>0,m=0 success, processed tree, True; s>0,m>0 partial,
\* processed tree, True; s=0,m>0 failed, failed tree, False; and an empty
\* discovery failed with reason "No DICOM files found", failed tree, False,
\* a record without per-instance entries.  The branch taken is the one the
\* counts select whatever happens to the move.
C4_OutcomeClassification ==
    \A p \in Procs :
        LET st == pst[p]
            s  == st.success_count
            m  == st.error_count
            clean == Finished(p) /\ st.exc = NoExc
        IN  /\ (clean /\ s > 0 /\ m = 0) =>
                   /\ st.counted = <<"success">>
                   /\ st.ret = "True"
                   /\ MovedTo(p, "processed")
            /\ (clean /\ s > 0 /\ m > 0) =>
                   /\ st.counted = <<"partial">>
                   /\ st.ret = "True"
                   /\ MovedTo(p, "processed")
            /\ (clean /\ s = 0 /\ m > 0) =>
                   /\ st.counted = <<"failed">>
                   /\ st.ret = "False"
                   /\ MovedTo(p, "failed")
                   /\ HasRecord(p)
                   /\ records[st.dest[1]].reason = [msg |-> "All files failed", n |-> m]
            /\ (clean /\ s = 0 /\ m = 0) =>
                   /\ st.files = <<>>
                   /\ st.counted = <<"failed">>
                   /\ st.ret = "False"
                   /\ MovedTo(p, "failed")
                   /\ HasRecord(p)
                   /\ records[st.dest[1]].reason = [msg |-> "No DICOM files found", n |-> 0]
                   /\ records[st.dest[1]].errors = <<>>
            /\ (Finished(p) /\ s > 0 /\ m = 0) => st.outcome = "success"
            /\ (Finished(p) /\ s > 0 /\ m > 0) => st.outcome = "partial"
            /\ (Finished(p) /\ s = 0) => st.outcome = "failed"

\* one call ended partial in the processed tree, the other found no DICOM
\* file and was quarantined
C4_Witness ==
    /\ Finished("p1") /\ Finished("p2")
    /\ pst["p1"].success_count = 1 /\ pst["p1"].error_count = 1
    /\ pst["p1"].counted = <<"partial">> /\ MovedTo("p1", "processed")
    /\ pst["p2"].files = <<>> /\ pst["p2"].counted = <<"failed">>
    /\ MovedTo("p2", "failed")

\* C5: every finished call whose study lies in the failed tree, or that
\* counted its study as failed or error, has its error record
\* {dest_basename}.error.json in the date directory, carrying the study's
\* folder name and tenant.
C5_FailedStudyHasRecord ==
    \A p \in Procs :
        (/\ Finished(p)
         /\ \/ pst[p].root = "failed"
            \/ \E i \in DOMAIN pst[p].counted : pst[p].counted[i] \in {"failed", "error"})
        => HasRecord(p)

\* C6: the gauge equals the number of calls in progress at every moment, so
\* it is back at its initial value once every call has finished.
C6_GaugeCountsCallsInProgress ==
    active = Cardinality({p \in Procs : ppc[p] \in InProgress})

\* a call has left through an exception escaping the quarantine while the
\* other call is still in progress
C6_Witness ==
    \E p, q \in Procs :
        /\ Finished(p) /\ pst[p].ret = "raised"
        /\ ppc[q] \in InProgress
        /\ active = 1

\* C12: every dataset handed to the uploader carries the tenant of the study
\* folder as InstitutionName, whatever the file stored, and every instance
\* counted as a success was handed over that way.
C12_PostedInstitutionIsTenant ==
    \A p \in Procs :
        /\ \A i \in DOMAIN pst[p].posted :
              pst[p].posted[i].InstitutionName = StudyOf(p)[1]
        /\ pst[p].success_count <= Len(pst[p].posted)

\* a study of tenant cA whose two files stored "Original" and another
\* tenant's name was imported with both instances counted
C12_Witness ==
    \E p \in Procs :
        /\ Finished(p)
        /\ pst[p].success_count = 2
        /\ {f.institution : f \in layout[StudyOf(p)]} = {"Original", "cB"}
        /\ \A i \in DOMAIN pst[p].posted : pst[p].posted[i].InstitutionName = "cA"

\* C20: a move that finds {study_basename} in the date directory puts the
\* study at {study_basename}_{HHMMSS} as a new entry of that directory and
\* leaves every existing entry as it was; a quarantine names its error
\* record after the renamed destination and leaves the other records alone.
C20_CollisionRenames ==
    [][\A p \in Procs, root \in Roots :
          (/\ ppc[p] \in {"move", "except"}
           /\ pst[p].dest = NoDest
           /\ pst'[p].dest # NoDest
           /\ pst'[p].root = root
           /\ Plain(StudyOf(p)[2]) \in tree[root])
          => /\ \E stamp \in Stamps :
                   /\ pst'[p].dest = Stamped(StudyOf(p)[2], stamp)
                   /\ pst'[p].dest \notin tree[root]
                   /\ tree'[root] = tree[root] \cup {pst'[p].dest}
             /\ (root = "failed" /\ pst'[p].ret = "False") =>
                   /\ pst'[p].dest[1] \in DOMAIN records'
                   /\ records'[pst'[p].dest[1]].study_folder = StudyOf(p)[2]
                   /\ \A k \in DOMAIN records : records'[k] = records[k]]_vars

Discovered(p) == ppc[p] \in {"loop", "move"}

\* the files the discovery rule selects: extension .dcm in any letter case,
\* or an extension outside .json/.txt/.log with a readable DICOM header
ShouldDiscover(files) ==
    {f \in files : \/ Lower(f.suffix) = ".dcm"
                   \/ /\ Lower(f.suffix) \notin {".json", ".txt", ".log"}
                      /\ f.dicom}

\* C21: dicom_files holds exactly the files the discovery rule selects, each
\* once.
C21_DiscoveryRule ==
    \A p \in Procs :
        Discovered(p) =>
            /\ {pst[p].files[i] : i \in DOMAIN pst[p].files}
                   = ShouldDiscover(layout[StudyOf(p)])
            /\ \A i, j \in DOMAIN pst[p].files :
                   pst[p].files[i] = pst[p].files[j] => i = j

WalkOver(p) ==
    /\ ppc[p] \in {"classify", "move", "except", "finally", "done"}
    /\ pst[p].files # <<>>

FileErrors == {"invalid_dicom", "upload_failed", "read_error"}

\* C22: the files are attempted in the order of dicom_files, each once; a
\* failure adds one to error_count and one entry with the file and its reason
\* to errors, and the walk goes on: after it, success_count + error_count
\* is the number of discovered files.
C22_EveryInstanceAttemptedOnce ==
    \A p \in Procs :
        LET st == pst[p]
        IN  /\ st.attempts = [i \in 1..(st.idx - 1) |-> st.files[i].name]
            /\ st.success_count + st.error_count = Len(st.attempts)
            /\ Len(st.errors) = st.error_count
            /\ \A i \in DOMAIN st.errors :
                  /\ st.errors[i].error \in FileErrors
                  /\ \E j \in DOMAIN st.attempts : st.attempts[j] = st.errors[i].file
            /\ WalkOver(p) => st.success_count + st.error_count = Len(st.files)

\* the first of two files failed and the second was uploaded all the same
C22_Witness ==
    \E p \in Procs :
        /\ Finished(p)
        /\ Len(pst[p].files) = 2
        /\ pst[p].errors = <<[file |-> pst[p].files[1].name, error |-> "upload_failed"]>>
        /\ pst[p].success_count = 1

\* C23: every created or modified event of a file or a directory at or below
\* a study folder stamps the folder's pending entry with the time of the
\* event: no such event leaves the entry absent or with an older stamp.
C23_EveryEventRefreshes == missed = {}

\* no drain has collected yet: the scan is over and the first call of
\* check_pending_folders has not reached its collection
BeforeFirstDrain == wakeAt = 0 /\ mpc \in {"check", "collect"}

\* C24: before the first drain every study directory in the inbox has a
\* pending entry stamped at or after startup (time 0), and a drain that
\* promotes a folder runs at least cooldown_seconds after startup.
C24_StartupRescan ==
    /\ BeforeFirstDrain =>
          \A k \in inbox : k \in DOMAIN pending_folders /\ pending_folders[k] >= 0
    /\ (mpc = "submit" /\ dlist # {}) => dnow >= cooldown_seconds

\* C24 witness: the scan alone has stamped the folder that was in the inbox
\* at startup, and the first drain is about to run.
C24_Witness ==
    /\ BeforeFirstDrain
    /\ mpc = "check"
    /\ clock = 0
    /\ inbox = {<<"cA", "s1">>}
    /\ pending_folders = [k \in inbox |-> 0]
    /\ missed = {}

\* C25: an entry leaves pending_folders only in a drain's collection that
\* finds it expired; the drain submits no job for a collected key whose folder
\* is gone and exactly one job, with the key's first segment as tenant, for one
\* whose folder exists; a key enters the map only by a note stamped with the
\* current time.
C25_RemovalAndSubmission ==
    [][\A k \in StudyKeys :
          /\ (k \in DOMAIN pending_folders /\ k \notin DOMAIN pending_folders') =>
                /\ mpc = "collect"
                /\ dnow - pending_folders[k] >= cooldown_seconds
                /\ k \in dlist'
          /\ (k \notin DOMAIN pending_folders /\ k \in DOMAIN pending_folders') =>
                /\ pending_folders'[k] = clock
                /\ mpc = "scan" \/ (lastEvent' # lastEvent /\ lastEvent'[k] = clock)
          /\ (k \in dlist /\ k \notin dlist') =>
                IF k \in inbox
                THEN /\ queue' = Append(queue, k)
                     /\ submitted' = submitted \cup {[folder |-> k, clinic_id |-> k[1]]}
                ELSE queue' = queue /\ submitted' = submitted
          /\ Len(queue') > Len(queue) => (k \in dlist /\ k \notin dlist')]_vars

\* C25 witness: a drain has collected and removed the expired entry of a
\* folder that a worker moved away in the meantime; its submission loop holds
\* the key and finds no folder.
C25_Witness ==
    /\ mpc = "submit"
    /\ dlist = {<<"cA", "s1">>}
    /\ inbox = {}
    /\ submitted = {}
    /\ queue = <<>>
    /\ pending_folders = EmptyMap
    /\ \A w \in Workers : running[w] = NoJob

\* the try block's move raised: mkdir or shutil.move of the chosen branch
MoveFailures == {"processed move failed", "quarantine move failed"}

\* C26: when the move of the chosen branch raises, the call counts the study
\* as error and leaves it in the failed tree with a record whose reason is the
\* exception's message, or, when the quarantine move raises too, leaves the
\* folder at its inbox path.
C26_MoveErrorQuarantines ==
    \A p \in Procs :
        (Finished(p) /\ pst[p].exc \in MoveFailures) =>
            \/ /\ pst[p].counted = <<"error">>
               /\ pst[p].ret = "False"
               /\ MovedTo(p, "failed")
               /\ HasRecord(p)
               /\ records[pst[p].dest[1]].reason.msg = pst[p].exc
            \/ /\ pst[p].root = "none"
               /\ StudyOf(p) \in inbox

\* C27: every call of process_study_folder that has ended has incremented the
\* imports counter exactly once, with one of success, partial, failed, error.
C27_OneCounterIncrement ==
    \A p \in Procs :
        Finished(p) =>
            /\ Len(pst[p].counted) = 1
            /\ pst[p].counted[1] \in {"success", "partial", "failed", "error"}

\* C28: a collection leaves in the map, unpromoted, every folder whose most
\* recent noted event is less than cooldown_seconds before the drain's `now`,
\* whatever the time since the folder was first noted.
C28_NoMaxAgeCap ==
    [][(mpc = "collect" /\ mpc' = "submit") =>
          \A k \in DOMAIN lastEvent :
              dnow - lastEvent[k] < cooldown_seconds =>
                  /\ k \notin dlist'
                  /\ k \in DOMAIN pending_folders'
                  /\ pending_folders'[k] = lastEvent[k]]_vars

\* C28 witness: events at 0, 30 and 55 with cooldown 60; the drain at t = 110,
\* 110 s after the folder was first noted, has collected nothing and the
\* folder is still pending.
C28_Witness ==
    /\ mpc = "submit"
    /\ dnow = 110
    /\ dlist = {}
    /\ queue = <<>>
    /\ noted = ScenarioEventTimes
    /\ cooldown_seconds = 60
    /\ pending_folders = [k \in StudyKeys |-> 55]

\* C29: with the main loop, the clock and the executor threads running
\* fairly, no shutdown signal and no event after LiveEventsUntil, a study
\* folder with a pending entry eventually has no entry and, if its folder
\* still exists, is being processed by an executor thread.
C29_NotedFolderIsProcessed ==
    \A k \in StudyKeys :
        (k \in DOMAIN pending_folders) ~>
            /\ k \notin DOMAIN pending_folders
            /\ k \notin inbox \/ \E w \in Workers : running[w] = k

\* C29 witness: after the last event the drain has removed the entry, and an
\* executor thread is processing the folder.
C29_Witness ==
    /\ clock >= LiveEventsUntil
    /\ pending_folders = EmptyMap
    /\ inbox = {<<"cA", "s1">>}
    /\ queue = <<>>
    /\ \E w \in Workers : running[w] = <<"cA", "s1">>
    /\ ~shutdown_event

\* C30: whenever a call moves its study folder out of the inbox into the
\* processed or failed tree, the destination it used was not an entry of the
\* tree before the move and is the only entry the move adds, so a clash on the
\* suffixed name moves nothing there.
C30_MoveOntoFreshDestination ==
    [][\A p \in Procs, root \in Roots :
          (/\ StudyOf(p) \in inbox
           /\ StudyOf(p) \notin inbox'
           /\ pst'[p].root = root
           /\ pst'[p].dest # pst[p].dest)
          => /\ pst'[p].dest \notin tree[root]
             /\ tree'[root] = tree[root] \cup {pst'[p].dest}]_vars

====
